---- MODULE Spec2Model ----
(***************************************************************************)
(* Model of src/src/integrations/e2b_sandbox_manager.py:                   *)
(* E2BSandboxManager (admission gate, registry of active sandboxes,        *)
(* execute_research_query, _create_sandbox, _run_code, _get_memory_usage,  *)
(* _cleanup_sandbox, cleanup_all) running on one asyncio event loop.       *)
(*                                                                         *)
(* One action is one run of a coroutine between two suspension points      *)
(* (awaits that reach the remote provider, or the semaphore wait).  The    *)
(* remote provider (e2b Sandbox) is the environment: every awaited remote  *)
(* operation may succeed or raise, and the deadline of asyncio.wait_for    *)
(* may expire at any await inside _run_code.                               *)
(***************************************************************************)
EXTENDS Integers, Sequences, FiniteSets, TLC

(* ------------------------------ bounds --------------------------------- *)

\* number of execute_research_query calls issued during a run
NumCalls == 3

\* max_sandboxes handed to E2BSandboxManager.__init__
max_sandboxes == 2

\* number of shutdown_e2b_sandboxes calls made one after the other
MaxShutdowns == 2

Calls == 1..NumCalls

\* sandbox_id (line 61): "research_" and asyncio.current_task().get_name().
\* A task's name is whatever its creator gave it, so two tasks may carry the
\* same one.
TaskNames == {"Task-1", "Task-2"}
SandboxId(task_name) == "research_" \o task_name

\* the timeout argument of call c: the values SafeResearchExecutor passes
\* (lines 218, 251)
TimeoutOf(c) == IF c % 2 = 1 THEN 60 ELSE 30

\* len(env_vars), None counting as 0 (line 116)
EnvSizes == {0, 1}

\* Python's None
None == "<None>"

\* the api_key argument of get_sandbox_manager and init_e2b_sandboxes
ApiKeys == {None, "key-a", "key-b"}

\* the global _sandbox_manager holding None (line 263); instances are numbered
\* from 1 in the order of their construction
NoManager == [inst |-> 0, api_key |-> None]

\* no accessor has been called yet
NoCall == [fn |-> "", api_key |-> None, value |-> NoManager]

\* exception classes the provider's awaited operations raise; asyncio.wait_for
\* raises "TimeoutError"
Excs == {"SandboxException"}

\* str(e): str() of an exception built without arguments is empty
StrOf(e) == IF e = "TimeoutError" THEN "" ELSE "sandbox error"

\* exit statuses process.wait() reports
ExitCodes == {0, 1}

\* what process.stdout / process.stderr hold on completion
Stdouts == {"ok"}
Stderrs == {None, "boom"}

\* what the ps|awk command of _get_memory_usage prints ("" does not parse)
PsOutputs == {"2"}

\* wall-clock seconds measured by time.time() - start_time
Elapsed == {1}

(* --------------------------- SandboxResult ----------------------------- *)

SandboxResult(s, o, e, t, m, x) ==
    [success |-> s, output |-> o, error |-> e,
     execution_time |-> t, memory_used |-> m, exit_code |-> x]

NoResult == [none |-> TRUE]

\* a timeout handler copied from the generic one: execution_time left at 0
TimeoutResultZeroTime(timeout) ==
    SandboxResult(FALSE, "", "Execution timeout after " \o ToString(timeout) \o "s",
                  0, 0, -1)

\* lines 77-86
TimeoutResult(timeout) ==
    SandboxResult(FALSE, "", "Execution timeout after " \o ToString(timeout) \o "s",
                  timeout, 0, -1)

\* a generic handler that reports the failure with a process-like status
ErrorResultExitOne(e) == SandboxResult(FALSE, "", StrOf(e), 0, 0, 1)

\* lines 88-97
ErrorResult(e) == SandboxResult(FALSE, "", StrOf(e), 0, 0, -1)

\* lines 154-162
RunErrorResult(e, elapsed) == SandboxResult(FALSE, "", StrOf(e), elapsed, 0, -1)

\* lines 145-152
RunResult(exit_code, stdout, stderr, memory_used, elapsed) ==
    SandboxResult(exit_code = 0,
                  IF stdout = None THEN "" ELSE stdout,
                  IF exit_code # 0 THEN stderr ELSE None,
                  elapsed, memory_used, exit_code)

\* int(result.stdout.strip()) * 1024, and 0 when that raises (lines 166-172)
ParseKb(s) == IF s = "2" THEN 2 ELSE -1
MemoryUsage(psout) == IF ParseKb(psout) < 0 THEN 0 ELSE ParseKb(psout) * 1024

(* ------------------------------- state --------------------------------- *)

VARIABLES
    pc,          \* per call: where the coroutine execute_research_query stands
    name,        \* per call: sandbox_id (line 61), "" before it is computed
    envLeft,     \* per call: entries of env_vars not yet exported (line 117)
    exited,      \* per call: <<exit_code>> once process.wait() returned (line 138)
    result,      \* per call: the SandboxResult computed by the try block
    killTarget,  \* per call: the sandbox read at line 178 whose kill() is awaited
    how,         \* per call: what ended the execution attempt
    killFailed,  \* per call: whether its awaited sandbox.kill() raised (line 179)
    registered,  \* calls that executed line 120
    semValue,    \* self._semaphore: free slots
    semWaiters,  \* self._semaphore: suspended acquirers, oldest first
    active,      \* self._active_sandboxes, in insertion order
    sbState,     \* provider side, per sandbox: "none", "live" or "killed"
    killCalls,   \* provider side, per sandbox: kill() invocations (2 = several)
    caPc,        \* cleanup_all: "idle" or "killing"
    caSnapshot,  \* cleanup_all: ids of list(keys()) still to visit (line 188)
    caId,        \* cleanup_all: the id whose cleanup is suspended at line 179
    caTarget,    \* cleanup_all: the sandbox read at line 178
    sandbox_manager,  \* the global _sandbox_manager (line 263)
    constructed, \* E2BSandboxManager instances constructed so far (2 = several)
    got,         \* what the last accessor call returned, and which accessor
    shutdownNo,  \* shutdown_e2b_sandboxes calls made so far
    handledBy    \* per sandbox: the shutdown call that last invoked kill() on
                 \* it, 0 for none

callVars == <<pc, name, envLeft, exited, result, killTarget, how,
              killFailed, registered>>
semVars == <<semValue, semWaiters>>
remoteVars == <<sbState, killCalls>>
caVars == <<caPc, caSnapshot, caId, caTarget>>
globalVars == <<sandbox_manager, constructed, got>>
shutdownVars == <<shutdownNo, handledBy>>
vars == <<callVars, semVars, active, remoteVars, caVars, globalVars, shutdownVars>>

\* a sandbox is identified by the call whose Sandbox.create returned it
Sandboxes == Calls

(* ---------------------- self._active_sandboxes ------------------------- *)

\* sandbox_id in self._active_sandboxes
Has(reg, id) == \E i \in 1..Len(reg) : reg[i].id = id

\* self._active_sandboxes[sandbox_id]
Get(reg, id) == reg[CHOOSE i \in 1..Len(reg) : reg[i].id = id].sb

\* self._active_sandboxes[sandbox_id] = sandbox: a present key keeps its place
Put(reg, id, sb) ==
    IF Has(reg, id)
    THEN [i \in 1..Len(reg) |-> IF reg[i].id = id THEN [id |-> id, sb |-> sb] ELSE reg[i]]
    ELSE Append(reg, [id |-> id, sb |-> sb])

\* del self._active_sandboxes[sandbox_id]; the KeyError of an absent key is
\* caught by line 182 and leaves the dict as it is
Del(reg, id) == SelectSeq(reg, LAMBDA e : e.id # id)

\* list(self._active_sandboxes.keys())
Keys(reg) == [i \in 1..Len(reg) |-> reg[i].id]

(* --------------------------- asyncio.Semaphore ------------------------- *)

\* a gate that admits one call too many
SemCanAcquireOffByOne(value, waiters) == value >= 0 /\ waiters = <<>>

\* acquire() returns without suspending iff not locked()
SemCanAcquire(value, waiters) == value > 0 /\ waiters = <<>>

\* a release that runs twice on the way out of the gate
SemReleaseTwice(value, waiters) ==
    IF waiters # <<>>
    THEN [value |-> value + 1, waiters |-> Tail(waiters), wake |-> {Head(waiters)}]
    ELSE [value |-> value + 2, waiters |-> waiters, wake |-> {}]

\* a release that frees the slot and leaves the waiters asleep
SemReleaseNoWake(value, waiters) ==
    [value |-> value + 1, waiters |-> waiters, wake |-> {}]

\* release(): the slot goes to the oldest waiter if there is one
SemRelease(value, waiters) ==
    IF waiters # <<>>
    THEN [value |-> value, waiters |-> Tail(waiters), wake |-> {Head(waiters)}]
    ELSE [value |-> value + 1, waiters |-> waiters, wake |-> {}]

\* calls inside the async with block of line 60
InGate == {"admitted", "creating", "envsetup", "running", "memusage", "killing"}
Holding(c) == pc[c] \in InGate
Holders == {c \in Calls : Holding(c)}

(* -------------------------------- Init --------------------------------- *)

Init ==
    /\ pc = [c \in Calls |-> "idle"]
    /\ name = [c \in Calls |-> ""]
    /\ envLeft = [c \in Calls |-> 0]
    /\ exited = [c \in Calls |-> <<>>]
    /\ result = [c \in Calls |-> NoResult]
    /\ killTarget = [c \in Calls |-> 0]
    /\ how = [c \in Calls |-> ""]
    /\ killFailed = [c \in Calls |-> FALSE]
    /\ registered = {}
    /\ semValue = max_sandboxes
    /\ semWaiters = <<>>
    /\ active = <<>>
    /\ sbState = [s \in Sandboxes |-> "none"]
    /\ killCalls = [s \in Sandboxes |-> 0]
    /\ caPc = "idle"
    /\ caSnapshot = <<>>
    /\ caId = ""
    /\ caTarget = 0
    /\ sandbox_manager = [inst |-> 1, api_key |-> None]
    /\ constructed = 1
    /\ got = NoCall
    /\ shutdownNo = 0
    /\ handledBy = [s \in Sandboxes |-> 0]

(* --------------------- exception handling of the code ------------------ *)

\* the except clause of execute_research_query an exception leaving the try
\* body reaches: line 77 (asyncio.TimeoutError) or line 88 (Exception)
QueryHandler(e) == IF e = "TimeoutError" THEN "timeout" ELSE "error"

\* the SandboxResult that clause returns; NoResult when no clause matches and
\* the exception propagates to the caller
HandledResult(e, to) ==
    CASE QueryHandler(e) = "timeout" -> TimeoutResult(to)
      [] QueryHandler(e) = "error" -> ErrorResult(e)
      [] OTHER -> NoResult

\* a cleanup without the except clause of line 182
CleanupCatchesNothing(e) == FALSE

\* line 182: except Exception around sandbox.kill() and the del
CleanupCatches(e) == e \in Excs

\* saturating count of kill() invocations
Bump(n) == IF n < 2 THEN n + 1 ELSE 2

(* ------------------------ execute_research_query ----------------------- *)

\* leaving the async with block (line 60): the slot is released and the
\* coroutine returns res, or raises when res = NoResult
Leave(c, res) ==
    LET r == SemRelease(semValue, semWaiters) IN
    /\ semValue' = r.value
    /\ semWaiters' = r.waiters
    /\ pc' = [d \in Calls |->
                IF d = c THEN (IF res = NoResult THEN "raised" ELSE "returned")
                ELSE IF d \in r.wake THEN "admitted" ELSE pc[d]]
    /\ result' = [result EXCEPT ![c] = res]

\* an execute_research_query without the finally block of lines 99-101
FinishSkipsCleanup(c, res, h) ==
    /\ how' = [how EXCEPT ![c] = h]
    /\ Leave(c, res)
    /\ UNCHANGED <<killTarget, killCalls>>

\* the finally block (lines 99-101) up to its first suspension: with the id
\* registered, _cleanup_sandbox reads the registered sandbox and awaits its
\* kill(); with the id absent it does nothing and the call leaves
Finish(c, res, h) ==
    /\ how' = [how EXCEPT ![c] = h]
    /\ IF Has(active, name[c])
       THEN LET sb == Get(active, name[c]) IN
            /\ pc' = [pc EXCEPT ![c] = "killing"]
            /\ result' = [result EXCEPT ![c] = res]
            /\ killTarget' = [killTarget EXCEPT ![c] = sb]
            /\ killCalls' = [killCalls EXCEPT ![sb] = Bump(@)]
            /\ UNCHANGED semVars
       ELSE /\ Leave(c, res)
            /\ UNCHANGED <<killTarget, killCalls>>

\* a call that has just returned or raised: its caller resumes in the same
\* event-loop step, before any other task runs
Returning == \E c \in Calls : pc[c] \in {"returned", "raised"}

\* lines 61-65, run on entering the gate: sandbox_id is computed from the
\* current task's name and Sandbox.create is awaited
Enter(c, p) ==
    /\ \E n \in TaskNames : name' = [name EXCEPT ![c] = SandboxId(n)]
    /\ pc' = [p EXCEPT ![c] = "creating"]

\* line 60: enter the gate, or suspend in acquire().  Calls are numbered in
\* the order they are made.
Call(c) ==
    /\ ~Returning
    /\ pc[c] = "idle"
    /\ \A d \in Calls : d < c => pc[d] # "idle"
    /\ IF SemCanAcquire(semValue, semWaiters)
       THEN /\ semValue' = semValue - 1
            /\ Enter(c, pc)
            /\ UNCHANGED semWaiters
       ELSE /\ semWaiters' = Append(semWaiters, c)
            /\ pc' = [pc EXCEPT ![c] = "waiting"]
            /\ UNCHANGED <<semValue, name>>
    /\ UNCHANGED <<envLeft, exited, result, killTarget, how, killFailed,
                   registered, active, remoteVars, caVars, globalVars, shutdownVars>>

\* a woken waiter resumes inside the gate
Resume(c) ==
    /\ ~Returning
    /\ pc[c] = "admitted"
    /\ Enter(c, pc)
    /\ UNCHANGED <<envLeft, exited, result, killTarget, how, killFailed,
                   registered, semVars, active, remoteVars, caVars, globalVars, shutdownVars>>

\* line 110 raises
CreateFail(c) ==
    /\ ~Returning
    /\ pc[c] = "creating"
    /\ \E e \in Excs : Finish(c, HandledResult(e, TimeoutOf(c)), "create_error")
    /\ UNCHANGED <<name, envLeft, exited, killFailed, registered,
                   active, sbState, caVars, globalVars, shutdownVars>>

\* line 120, reached when no export is left to do
Register(c) ==
    /\ active' = Put(active, name[c], c)
    /\ registered' = registered \cup {c}
    /\ pc' = [pc EXCEPT ![c] = "running"]

\* a _create_sandbox that stores the sandbox before the export loop
AfterCreateRegisterFirst(c, n) ==
    /\ active' = Put(active, name[c], c)
    /\ registered' = registered \cup {c}
    /\ pc' = [pc EXCEPT ![c] = IF n = 0 THEN "running" ELSE "envsetup"]

\* lines 116-122 after Sandbox.create returned, with n exports to do: the
\* first export is awaited, or with none the sandbox is stored at once
AfterCreate(c, n) ==
    IF n = 0
    THEN Register(c)
    ELSE /\ pc' = [pc EXCEPT ![c] = "envsetup"]
         /\ UNCHANGED <<active, registered>>

\* line 110 returns a sandbox; lines 116-122 up to the next await.  env_vars
\* is first read here (line 116), so its size is drawn here.
CreateOk(c) ==
    /\ ~Returning
    /\ pc[c] = "creating"
    /\ sbState' = [sbState EXCEPT ![c] = "live"]
    /\ \E n \in EnvSizes :
         /\ envLeft' = [envLeft EXCEPT ![c] = n]
         /\ AfterCreate(c, n)
    /\ UNCHANGED <<name, exited, result, killTarget, how,
                   killFailed, semVars, killCalls, caVars, globalVars, shutdownVars>>

\* line 118 returns
EnvOk(c) ==
    /\ ~Returning
    /\ pc[c] = "envsetup"
    /\ envLeft' = [envLeft EXCEPT ![c] = @ - 1]
    /\ IF envLeft[c] = 1
       THEN Register(c)
       ELSE UNCHANGED <<pc, active, registered>>
    /\ UNCHANGED <<name, exited, result, killTarget, how, killFailed,
                   semVars, remoteVars, caVars, globalVars, shutdownVars>>

\* line 118 raises: the sandbox exists and was never registered
EnvFail(c) ==
    /\ ~Returning
    /\ pc[c] = "envsetup"
    /\ \E e \in Excs : Finish(c, HandledResult(e, TimeoutOf(c)), "env_error")
    /\ UNCHANGED <<name, envLeft, exited, killFailed, registered,
                   active, sbState, caVars, globalVars, shutdownVars>>

\* lines 131-138: process.start and process.wait both return; exit_code is
\* the status wait() reports.  (Nothing shared changes between the two awaits,
\* and both raise into the handler of line 154.)
RunOk(c) ==
    /\ ~Returning
    /\ pc[c] = "running"
    /\ \E x \in ExitCodes : exited' = [exited EXCEPT ![c] = <<x>>]
    /\ pc' = [pc EXCEPT ![c] = "memusage"]
    /\ UNCHANGED <<name, envLeft, result, killTarget, how, killFailed,
                   registered, semVars, active, remoteVars, caVars, globalVars, shutdownVars>>

\* line 131 or line 138 raises: _run_code returns the result of lines 154-162
RunFail(c) ==
    /\ ~Returning
    /\ pc[c] = "running"
    /\ \E e \in Excs, el \in Elapsed : Finish(c, RunErrorResult(e, el), "run_error")
    /\ UNCHANGED <<name, envLeft, exited, killFailed, registered,
                   active, sbState, caVars, globalVars, shutdownVars>>

\* line 141 returns (a raising or unparsable query gives 0); lines 143-152
MemDone(c) ==
    /\ ~Returning
    /\ pc[c] = "memusage"
    /\ \E ps \in PsOutputs, so \in Stdouts, se \in Stderrs, el \in Elapsed :
         Finish(c, RunResult(exited[c][1], so, se, MemoryUsage(ps), el), "completed")
    /\ UNCHANGED <<name, envLeft, exited, killFailed, registered,
                   active, sbState, caVars, globalVars, shutdownVars>>

\* the deadline of asyncio.wait_for (line 70) expires while _run_code is
\* suspended: _run_code is cancelled and TimeoutError reaches line 77
Deadline(c) ==
    /\ ~Returning
    /\ pc[c] \in {"running", "memusage"}
    /\ Finish(c, HandledResult("TimeoutError", TimeoutOf(c)), "deadline")
    /\ UNCHANGED <<name, envLeft, exited, killFailed, registered,
                   active, sbState, caVars, globalVars, shutdownVars>>

\* line 179 returns; line 180; the call leaves
KillOk(c) ==
    /\ ~Returning
    /\ pc[c] = "killing"
    /\ sbState' = [sbState EXCEPT ![killTarget[c]] = "killed"]
    /\ active' = Del(active, name[c])
    /\ Leave(c, result[c])
    /\ UNCHANGED <<name, envLeft, exited, killTarget, how, killFailed,
                   registered, killCalls, caVars, globalVars, shutdownVars>>

\* line 179 raises: line 180 is skipped, line 183 logs
KillFail(c) ==
    /\ ~Returning
    /\ pc[c] = "killing"
    /\ \E e \in Excs : Leave(c, IF CleanupCatches(e) THEN result[c] ELSE NoResult)
    /\ killFailed' = [killFailed EXCEPT ![c] = TRUE]
    /\ UNCHANGED <<name, envLeft, exited, killTarget, how, registered,
                   active, remoteVars, caVars, globalVars, shutdownVars>>

\* the caller takes the result; the coroutine's locals are gone
Done(c) ==
    /\ pc[c] \in {"returned", "raised"}
    /\ pc' = [pc EXCEPT ![c] = "done"]
    /\ name' = [name EXCEPT ![c] = ""]
    /\ envLeft' = [envLeft EXCEPT ![c] = 0]
    /\ exited' = [exited EXCEPT ![c] = <<>>]
    /\ result' = [result EXCEPT ![c] = NoResult]
    /\ killTarget' = [killTarget EXCEPT ![c] = 0]
    /\ how' = [how EXCEPT ![c] = ""]
    /\ killFailed' = [killFailed EXCEPT ![c] = FALSE]
    /\ registered' = registered \ {c}
    /\ UNCHANGED <<semVars, active, remoteVars, caVars, globalVars, shutdownVars>>

(* ------------------------------ cleanup_all ---------------------------- *)

RECURSIVE SkipGone(_, _)
\* _cleanup_sandbox returns at once for an id no longer registered (line 176)
SkipGone(reg, snap) ==
    IF snap = <<>> \/ Has(reg, Head(snap)) THEN snap ELSE SkipGone(reg, Tail(snap))

\* lines 188-189 and 176-179, up to the next await of kill() or to the end
CaLoop(reg, snap) ==
    LET s == SkipGone(reg, snap) IN
    IF s = <<>>
    THEN /\ caPc' = "idle"
         /\ caSnapshot' = <<>>
         /\ caId' = ""
         /\ caTarget' = 0
         /\ UNCHANGED killCalls
    ELSE /\ caPc' = "killing"
         /\ caSnapshot' = Tail(s)
         /\ caId' = Head(s)
         /\ caTarget' = Get(reg, Head(s))
         /\ killCalls' = [killCalls EXCEPT ![Get(reg, Head(s))] = Bump(@)]

\* the kill() this step of cleanup_all has invoked is set down to the
\* shutdown call that runs the cleanup_all (0 when cleanup_all was called
\* directly)
Handled ==
    handledBy' = IF caPc' = "killing"
                 THEN [handledBy EXCEPT ![caTarget'] = shutdownNo']
                 ELSE handledBy

\* lines 187-188: snapshot of the keys, then the loop
CleanupAll ==
    /\ ~Returning
    /\ caPc = "idle"
    /\ CaLoop(active, Keys(active))
    /\ UNCHANGED <<callVars, semVars, active, sbState, globalVars, shutdownVars>>

\* line 179 returns inside cleanup_all; line 180; next id
CaKillOk ==
    /\ ~Returning
    /\ caPc = "killing"
    /\ sbState' = [sbState EXCEPT ![caTarget] = "killed"]
    /\ active' = Del(active, caId)
    /\ CaLoop(Del(active, caId), caSnapshot)
    /\ UNCHANGED <<callVars, semVars, globalVars, shutdownNo>>
    /\ Handled

\* a cleanup_all that gives up at the first kill() that raises
CaKillFailStops ==
    /\ ~Returning
    /\ caPc = "killing"
    /\ CaLoop(active, <<>>)
    /\ UNCHANGED <<callVars, semVars, active, sbState, globalVars, shutdownNo>>
    /\ Handled

\* line 179 raises inside cleanup_all; line 183 logs; next id
CaKillFail ==
    /\ ~Returning
    /\ caPc = "killing"
    /\ CaLoop(active, caSnapshot)
    /\ UNCHANGED <<callVars, semVars, active, sbState, globalVars, shutdownNo>>
    /\ Handled

(* ------------------------------ specification -------------------------- *)

Next ==
    \/ \E c \in Calls : Done(c)
    \/ \E c \in Calls : Call(c)
    \/ \E c \in Calls : Resume(c)
    \/ \E c \in Calls : CreateFail(c)
    \/ \E c \in Calls : CreateOk(c)
    \/ \E c \in Calls : EnvOk(c)
    \/ \E c \in Calls : EnvFail(c)
    \/ \E c \in Calls : RunOk(c)
    \/ \E c \in Calls : RunFail(c)
    \/ \E c \in Calls : MemDone(c)
    \/ \E c \in Calls : Deadline(c)
    \/ \E c \in Calls : KillOk(c)
    \/ \E c \in Calls : KillFail(c)
    \/ CleanupAll
    \/ CaKillOk
    \/ CaKillFail

Spec == Init /\ [][Next]_vars

\* one step of call c once it has been made: a wake-up in the gate, the
\* return or failure of the remote operation it awaits, its deadline, or the
\* hand-over of its result to the caller
CallStep(c) ==
    \/ Resume(c) \/ CreateFail(c) \/ CreateOk(c) \/ EnvOk(c) \/ EnvFail(c)
    \/ RunOk(c) \/ RunFail(c) \/ MemDone(c) \/ Deadline(c)
    \/ KillOk(c) \/ KillFail(c) \/ Done(c)

\* the execute_research_query calls alone, with no cleanup_all running
NextQueries ==
    \/ \E c \in Calls : Call(c)
    \/ \E c \in Calls : CallStep(c)

\* the event loop runs every ready task, and every remote operation a call
\* awaits eventually returns or raises: no call stays suspended forever at an
\* await other than the semaphore's
FairQueries ==
    Init /\ [][NextQueries]_vars /\ \A c \in Calls : WF_vars(CallStep(c))

(* ------------------- the process-wide sandbox manager ------------------ *)

\* a get_sandbox_manager that keeps one manager per api_key
NeedsManagerPerKey(m, api_key) == m = NoManager \/ m.api_key # api_key

\* line 268: _sandbox_manager is None
NeedsManager(m, api_key) == m = NoManager

\* lines 267-270: the global after get_sandbox_manager(api_key); a constructed
\* manager has an empty registry and max_sandboxes free slots (lines 36-39)
GetManager(api_key) ==
    IF NeedsManager(sandbox_manager, api_key)
    THEN /\ sandbox_manager' = [inst |-> Bump(constructed), api_key |-> api_key]
         /\ constructed' = Bump(constructed)
         /\ active' = <<>>
         /\ semValue' = max_sandboxes
         /\ semWaiters' = <<>>
    ELSE UNCHANGED <<sandbox_manager, constructed, active, semVars>>

\* lines 265-270
GetSandboxManager(api_key) ==
    /\ GetManager(api_key)
    /\ got' = [fn |-> "get_sandbox_manager", api_key |-> api_key,
               value |-> sandbox_manager']
    /\ UNCHANGED <<callVars, remoteVars, caVars, shutdownVars>>

\* lines 273-277: the coroutine awaits nothing
InitE2bSandboxes(api_key) ==
    /\ GetManager(api_key)
    /\ got' = [fn |-> "init_e2b_sandboxes", api_key |-> api_key,
               value |-> sandbox_manager']
    /\ UNCHANGED <<callVars, remoteVars, caVars, shutdownVars>>

\* lines 280-283 up to the first await of kill() inside cleanup_all, or to the
\* end; a shutdown call is made when the one before it has returned
ShutdownE2bSandboxes ==
    /\ caPc = "idle"
    /\ shutdownNo < MaxShutdowns
    /\ GetManager(None)
    /\ shutdownNo' = shutdownNo + 1
    /\ CaLoop(active', Keys(active'))
    /\ Handled
    /\ UNCHANGED <<callVars, sbState, got>>

\* registries a manager holds while no execute_research_query is in flight:
\* the entries left behind by calls whose kill() raised
Registries ==
    LET Entries == {[id |-> SandboxId(n), sb |-> sb] : n \in TaskNames, sb \in Sandboxes}
        Seqs == UNION {[1..k -> Entries] : k \in 0..Cardinality(TaskNames)}
    IN {r \in Seqs : \A i, j \in 1..Len(r) :
                        i # j => r[i].id # r[j].id /\ r[i].sb # r[j].sb}

\* the process before any accessor was called, or a manager whose calls have
\* all returned
InitGlobal ==
    /\ name = [c \in Calls |-> ""]
    /\ envLeft = [c \in Calls |-> 0]
    /\ exited = [c \in Calls |-> <<>>]
    /\ result = [c \in Calls |-> NoResult]
    /\ killTarget = [c \in Calls |-> 0]
    /\ how = [c \in Calls |-> ""]
    /\ killFailed = [c \in Calls |-> FALSE]
    /\ registered = {}
    /\ semValue = max_sandboxes
    /\ semWaiters = <<>>
    /\ caPc = "idle"
    /\ caSnapshot = <<>>
    /\ caId = ""
    /\ caTarget = 0
    /\ got = NoCall
    /\ shutdownNo = 0
    /\ handledBy = [s \in Sandboxes |-> 0]
    /\ \/ /\ sandbox_manager = NoManager
          /\ constructed = 0
          /\ pc = [c \in Calls |-> "idle"]
          /\ active = <<>>
          /\ sbState = [s \in Sandboxes |-> "none"]
          /\ killCalls = [s \in Sandboxes |-> 0]
       \/ \E r \in Registries, k \in ApiKeys :
            LET left == {r[i].sb : i \in 1..Len(r)} IN
            /\ sandbox_manager = [inst |-> 1, api_key |-> k]
            /\ constructed = 1
            /\ pc = [c \in Calls |-> "done"]
            /\ active = r
            /\ sbState = [s \in Sandboxes |-> IF s \in left THEN "live" ELSE "none"]
            /\ killCalls = [s \in Sandboxes |-> IF s \in left THEN 1 ELSE 0]

NextGlobal ==
    \/ \E k \in ApiKeys : GetSandboxManager(k)
    \/ \E k \in ApiKeys : InitE2bSandboxes(k)
    \/ ShutdownE2bSandboxes
    \/ CaKillOk
    \/ CaKillFail

SpecGlobal == InitGlobal /\ [][NextGlobal]_vars

(* ------------------------------- properties ---------------------------- *)

Live == {s \in Sandboxes : sbState[s] = "live"}
AllReturned == \A c \in Calls : pc[c] \in {"idle", "returned", "done"}
ExecutionFailed(c) == how[c] \in {"create_error", "env_error", "run_error", "deadline"}

\* C1  Slot conservation: the free slots of the gate plus the calls inside
\* the gate always add up to max_sandboxes (every acquired slot is given back
\* exactly once), so once every call has returned, whatever its outcome, the
\* gate has max_sandboxes free slots and no waiter.
C1_SlotConservation ==
    /\ semValue + Cardinality(Holders) = max_sandboxes
    /\ AllReturned => semValue = max_sandboxes /\ semWaiters = <<>>

\* every call of the run has returned, the last one after a deadline expiry and
\* a failing kill(), and a sandbox of an earlier call is still alive
C1_Witness ==
    /\ \E c \in Calls :
         /\ pc[c] = "returned" /\ how[c] = "deadline" /\ killFailed[c]
         /\ \A d \in Calls \ {c} : pc[d] = "done"
    /\ Cardinality(Live) >= 2

\* C2  Bounded concurrency: at most max_sandboxes calls are inside the gate
\* (so at most that many Sandbox.create are in flight), and a suspended call
\* leaves acquire() only in a step in which a call inside the gate leaves it.
C2_BoundedConcurrency ==
    /\ [](Cardinality(Holders) <= max_sandboxes)
    /\ [][\A c \in Calls :
            (pc[c] = "waiting" /\ pc'[c] # "waiting")
              => \E d \in Calls \ {c} : pc[d] \in InGate /\ pc'[d] \notin InGate]_vars

\* the gate is full with one call just admitted by another call's release
C2_Witness ==
    /\ Cardinality(Holders) = max_sandboxes
    /\ \E c \in Calls : pc[c] = "admitted"
    /\ \E c \in Calls : pc[c] = "creating"

\* C3  Hard cap on live sandboxes: the sandboxes created and not killed never
\* number more than max_sandboxes.
C3_LiveSandboxCap == Cardinality(Live) <= max_sandboxes

\* C4  No orphaned sessions: when execute_research_query returns, its
\* sandbox_id has no entry in _active_sandboxes.
C4_NoOrphanedSessions ==
    \A c \in Calls : pc[c] = "returned" => ~Has(active, name[c])

\* C5  Unconditional teardown: when a call whose Sandbox.create succeeded
\* returns, kill() has been invoked on the sandbox it created.
C5_UnconditionalTeardown ==
    \A c \in Calls : pc[c] = "returned" /\ sbState[c] # "none" => killCalls[c] > 0

\* C6 (as stated)  Every execution-stage failure, a failing kill() included,
\* ends in a returned SandboxResult whose error field describes the failure.
C6_ErrorFieldDescribesEveryFailure ==
    \A c \in Calls :
        pc[c] \in {"returned", "raised"} /\ (ExecutionFailed(c) \/ killFailed[c])
          => pc[c] = "returned" /\ result[c].error # None

\* C6 (amended)  execute_research_query never raises: every call ends by
\* returning a SandboxResult; after a creation, setup, start/wait failure or a
\* deadline expiry the result has success = false and a non-null error; a
\* failing kill() leaves the result computed before the cleanup as it was.
C6_NeverRaises ==
    /\ [](\A c \in Calls : pc[c] # "raised")
    /\ [](\A c \in Calls :
           pc[c] = "returned" =>
             /\ result[c] # NoResult
             /\ ExecutionFailed(c) => ~result[c].success /\ result[c].error # None)
    /\ [][\A c \in Calls :
            pc[c] = "killing" /\ pc'[c] = "returned" => result'[c] = result[c]]_vars

\* a call returns a successful result although its kill() raised
C6_Witness ==
    \E c \in Calls :
        /\ pc[c] = "returned" /\ killFailed[c]
        /\ how[c] = "completed" /\ result[c].success /\ result[c].error = None

\* C7  Timeout result: after a deadline expiry the call's result is
\* success = false, output "", error "Execution timeout after <timeout>s",
\* execution_time = timeout, memory_used = 0, exit_code = -1, also when the
\* process had already exited and through the cleanup that follows.
C7_TimeoutResult ==
    \A c \in Calls :
        pc[c] \in {"killing", "returned"} /\ how[c] = "deadline" =>
            result[c] = [success |-> FALSE,
                         output |-> "",
                         error |-> IF TimeoutOf(c) = 60
                                   THEN "Execution timeout after 60s"
                                   ELSE "Execution timeout after 30s",
                         execution_time |-> TimeoutOf(c),
                         memory_used |-> 0,
                         exit_code |-> -1]

\* calls with either timeout value have returned after their deadline expired
C7_Witness ==
    /\ \E c \in Calls : pc[c] = "returned" /\ how[c] = "deadline" /\ TimeoutOf(c) = 30
    /\ \E c \in Calls : pc[c] = "done" /\ TimeoutOf(c) = 60

\* C8  Timeout fidelity: a call whose deadline expired returns, and on return
\* it holds neither a gate slot nor a registry entry.
C8_TimeoutLeavesNothing ==
    \A c \in Calls :
        pc[c] = "returned" /\ how[c] = "deadline"
          => ~Holding(c) /\ ~Has(active, name[c])

\* C9  Creation failure leaves nothing registered: a call whose Sandbox.create
\* or environment setup raised returns success = false and exit_code = -1, has
\* never executed the registration of line 120, and no registry entry holds
\* its sandbox.
C9_CreationFailureLeavesNothing ==
    \A c \in Calls :
        pc[c] = "returned" /\ how[c] \in {"create_error", "env_error"} =>
            /\ ~result[c].success
            /\ result[c].exit_code = -1
            /\ c \notin registered
            /\ \A i \in 1..Len(active) : active[i].sb # c

\* a call returns after its environment setup failed, while another call with
\* the same sandbox_id is registered
C9_Witness ==
    \E c \in Calls :
        /\ pc[c] = "returned" /\ how[c] = "env_error" /\ sbState[c] = "live"
        /\ \E d \in registered \ {c} : name[d] = name[c]

\* C10  Result consistency: a returned result has success = true iff the
\* process was seen to exit with status 0 before the deadline; success comes
\* with error = None and exit_code = 0; exit_code = -1 comes with
\* success = false.
C10_ResultConsistency ==
    \A c \in Calls :
        pc[c] = "returned" =>
            /\ result[c].success <=> exited[c] = <<0>>
            /\ result[c].success => result[c].error = None /\ result[c].exit_code = 0
            /\ result[c].exit_code = -1 => ~result[c].success

\* C11  Failure shape: a call whose process completed before the deadline with
\* a non-zero exit code x returns success = false, exit_code = x and a
\* non-empty error text, whatever stderr was captured (none included).
C11_FailureShape ==
    \A c \in Calls :
        pc[c] = "returned" /\ how[c] = "completed" /\ exited[c] # <<0>> =>
            /\ ~result[c].success
            /\ result[c].exit_code = exited[c][1]
            /\ result[c].error \notin {None, ""}

\* C12  Cleanup resilience: a call whose kill() raised returns with its
\* sandbox_id removed from the registry, and when cleanup_all returns while no
\* execution is in flight the registry is empty, also after a kill() it
\* awaited has raised.
C12_CleanupResilience ==
    /\ [](\A c \in Calls :
            pc[c] = "returned" /\ killFailed[c] => ~Has(active, name[c]))
    /\ [][(caPc = "killing" /\ caPc' = "idle" /\ Holders = {}) => active' = <<>>]_vars

\* C13  cleanup_all isolates failures: cleanup_all starts from the list of the
\* ids registered at that moment; every time one of its kill() calls returns
\* or raises it moves on to the next id of that list that is still registered
\* and invokes kill() on the sandbox registered under it; it returns only when
\* no id left in the list is registered.
C13_CleanupAllIsolatesFailures ==
    /\ [][(caPc = "idle" /\ caPc' = "killing")
            => <<caId'>> \o caSnapshot' = Keys(active)]_vars
    /\ [][(caPc = "killing" /\ <<caPc, caSnapshot, caId>>' # <<caPc, caSnapshot, caId>>)
            => LET k == Len(caSnapshot) - Len(caSnapshot') IN
               IF caPc' = "killing"
               THEN /\ k >= 1
                    /\ caId' = caSnapshot[k]
                    /\ caSnapshot' = SubSeq(caSnapshot, k + 1, Len(caSnapshot))
                    /\ \A i \in 1..(k - 1) : ~Has(active', caSnapshot[i])
                    /\ Has(active', caId')
                    /\ caTarget' = Get(active', caId')
                    /\ killCalls'[caTarget'] = Bump(killCalls[caTarget'])
               ELSE \A i \in 1..Len(caSnapshot) : ~Has(active', caSnapshot[i])]_vars

\* cleanup_all awaits kill() on the second registered sandbox after its kill()
\* on the first one raised: the first is still registered and alive
C13_Witness ==
    /\ caPc = "killing"
    /\ Len(active) = 2
    /\ caId = active[2].id
    /\ caSnapshot = <<>>
    /\ sbState[active[1].sb] = "live"
    /\ killCalls[active[1].sb] = 1
    /\ \A c \in Calls : pc[c] \notin {"killing", "done"}

\* C14  Idempotent shutdown: over shutdown_e2b_sandboxes calls made one after
\* the other, a call invokes kill() on no sandbox on which an earlier shutdown
\* call has invoked it.
C14_IdempotentShutdown ==
    [][\A s \in Sandboxes : handledBy'[s] # handledBy[s] => handledBy[s] = 0]_vars

\* C15  Single process-wide controller: at most one E2BSandboxManager is ever
\* constructed; every accessor call returns the instance the global holds,
\* which is the first one constructed; once set the global never changes; a
\* construction yields an empty registry and max_sandboxes free slots.
C15_SingleController ==
    /\ [](constructed <= 1)
    /\ [](got # NoCall => got.value = sandbox_manager /\ got.value.inst = 1)
    /\ [][sandbox_manager # NoManager => sandbox_manager' = sandbox_manager]_vars
    /\ [][constructed' # constructed
            => active' = <<>> /\ semValue' = max_sandboxes /\ semWaiters' = <<>>]_vars

\* after the last shutdown an accessor called with other credentials than the
\* manager's returned the manager, which still holds a registry entry
C15_Witness ==
    /\ shutdownNo = MaxShutdowns
    /\ caPc = "idle"
    /\ got # NoCall
    /\ got.fn = "init_e2b_sandboxes"
    /\ got.api_key = "key-b"
    /\ got.value.api_key = "key-a"
    /\ active # <<>>

C17_PerCallOrdering ==
    /\ [][\A c \in Calls :
            /\ (pc'[c] = "creating" /\ pc[c] # "creating")
                 => \/ pc[c] = "admitted"
                    \/ pc[c] = "idle" /\ semValue > 0 /\ semValue' = semValue - 1
            /\ sbState'[c] # sbState[c] /\ sbState[c] = "none"
                 => pc[c] = "creating"]_vars
    /\ [][\A c \in Calls :
            (pc'[c] = "killing" /\ pc[c] # "killing")
              => /\ pc[c] \in {"creating", "envsetup", "running", "memusage"}
                 /\ how[c] = "" /\ how'[c] # ""
                 /\ result'[c] # NoResult]_vars
    /\ [][(\/ semValue' > semValue
           \/ \E d \in Calls : pc[d] = "waiting" /\ pc'[d] # "waiting")
            => \E c \in Calls :
                 /\ Holding(c) /\ pc'[c] \in {"returned", "raised"}
                 /\ how'[c] # ""
                 /\ pc[c] = "killing" \/ ~Has(active, name[c])]_vars

\* a completed call awaits its kill() while the gate is full and another call
\* is suspended in acquire()
C17_Witness ==
    /\ semValue = 0
    /\ \E c \in Calls : pc[c] = "killing" /\ how[c] = "completed"
    /\ \E d \in Calls : pc[d] = "waiting"

\* C18  Unique session identifiers: two calls inside the gate that have
\* computed their sandbox_id hold different ones, and the sandbox whose kill()
\* a call's cleanup awaits is the one that call created.
C18_UniqueSessionIds ==
    /\ \A c, d \in Calls :
         c # d /\ Holding(c) /\ Holding(d) /\ name[c] # "" /\ name[d] # ""
           => name[c] # name[d]
    /\ \A c \in Calls : pc[c] = "killing" => killTarget[c] = c

\* C19  kill() is invoked at most once on any sandbox, and the entry a
\* _cleanup_sandbox deletes holds the sandbox it has just killed.
C19_KillAtMostOnce ==
    /\ [](\A s \in Sandboxes : killCalls[s] <= 1)
    /\ [][\A c \in Calls :
            (pc[c] = "killing" /\ pc'[c] = "returned" /\ ~killFailed'[c]
             /\ Has(active, name[c]))
              => Get(active, name[c]) = killTarget[c]]_vars

\* C20  Every entry of _active_sandboxes holds the sandbox of a call that is
\* inside the gate, hence the registry has at most max_sandboxes entries.
C20_RegistryWithinHolders ==
    /\ \A i \in 1..Len(active) : active[i].sb \in Holders
    /\ Len(active) <= max_sandboxes

====
